---- MODULE Spec2Model ----
(***************************************************************************)
(* Lumonitor: the BrightnessController of lumonitor.py.                    *)
(*                                                                         *)
(* Brightness values are integers in thousandths (1000 = 1.0), so that the *)
(* two-decimal text of the cache file (f"{b:.2f}") is a real conversion.   *)
(* Monitor names are sequences of one-character strings, so that the       *)
(* string operations of the code (concatenation, replace, title) are       *)
(* computed character by character.                                        *)
(***************************************************************************)
EXTENDS Integers, Sequences, FiniteSets, TLC

VARIABLES
    env,                \* outcomes of the discovery commands run by __init__
    pc,                 \* "new" | "running" | "ctor_raised"
    use_ddcutil,        \* self.use_ddcutil
    monitors,           \* self.monitors
    brightness_cache,   \* self.brightness_cache : name -> value (in-memory view)
    cache_files,        \* files of self.cache_dir : file name -> content
    pending_changes,    \* self.pending_changes, in dict insertion order
    change_lock,        \* self.change_lock : "free" | "fg" | "worker"
    fpc,                \* position of the foreground caller
    fcall,              \* the foreground call in progress
    wpc,                \* position of the worker thread
    to_apply,           \* the worker's local to_apply, entries not yet applied
    wcall,              \* the hardware apply call the worker is inside
    clock,              \* time.time(): a logical clock, advanced by every foreground call
    window,             \* history: the set_brightness inserts since the last swap
    swept,              \* history: the inserts that preceded the last swap
    swept_since,        \* history: a swap happened since the last foreground call returned
    hw_log,             \* history: the hardware calls of the last sweep, and those running
    applied,            \* history: monitor -> the ts of the entries handed to the hardware
    fg_log,             \* history: the last completed foreground call, <<>> or <<call>>
    cli,                \* main() in one-shot mode: arguments, position, exit code
    gui                 \* LumonitorGUI: debounce state, timers of the main loop, position

vars == <<env, pc, use_ddcutil, monitors, brightness_cache, cache_files,
          pending_changes, change_lock, fpc, fcall, wpc, to_apply, wcall,
          clock, window, swept, swept_since,
          hw_log, applied, fg_log, cli, gui>>

(***************************************************************************)
(* Generic helpers.                                                        *)
(***************************************************************************)
Min(a, b) == IF a < b THEN a ELSE b
Max(a, b) == IF a > b THEN a ELSE b

RECURSIVE SelectIdx(_, _)
SelectIdx(s, keep) ==
    \* the subsequence of s at the indices in keep
    IF s = <<>> THEN <<>>
    ELSE LET n == Len(s)
             front == SelectIdx(SubSeq(s, 1, n - 1), keep)
         IN IF n \in keep THEN Append(front, s[n]) ELSE front

(***************************************************************************)
(* Strings as character sequences.                                         *)
(***************************************************************************)
\* str.replace(old, new) for single characters
Replace(s, old, new) == [i \in 1..Len(s) |-> IF s[i] = old THEN new ELSE s[i]]

Upper(c) ==
    CASE c = "a" -> "A" [] c = "b" -> "B" [] c = "d" -> "D" [] c = "p" -> "P"
      [] c = "e" -> "E" [] OTHER -> c
Lower(c) ==
    CASE c = "A" -> "a" [] c = "B" -> "b" [] c = "D" -> "d" [] c = "P" -> "p"
      [] c = "E" -> "e" [] OTHER -> c
IsLetter(c) == Upper(c) # c \/ Lower(c) # c

\* str.title(): a letter is upper-cased when it follows a non-letter, else lower-cased
Title(s) ==
    [i \in 1..Len(s) |->
        IF ~IsLetter(s[i]) THEN s[i]
        ELSE IF i = 1 \/ ~IsLetter(s[i - 1]) THEN Upper(s[i]) ELSE Lower(s[i])]

DisplayPrefix == <<"d", "i", "s", "p", "l", "a", "y", "-">>
DisplayOpen == <<" ", "(", "D", "i", "s", "p", "l", "a", "y", " ">>
DefaultName == <<"d", "e", "f", "a", "u", "l", "t">>
DefaultDisplayName ==
    <<"D", "e", "f", "a", "u", "l", "t", " ", "M", "o", "n", "i", "t", "o", "r">>
NoId == <<>>    \* ddcutil_id None

\* monitor names the sample command outputs report
NameEDP == <<"e", "D", "P", "-", "1">>
NameDP == <<"D", "P", "-", "2">>

(***************************************************************************)
(* Outcomes of the external discovery commands.  A command result is       *)
(* [status, out]: "ok" (exit 0), "fail" (CalledProcessError) or "missing"  *)
(* (FileNotFoundError); out is the list of lines of stdout.                *)
(***************************************************************************)
Failed == [status |-> "fail", out |-> <<>>]
Missing == [status |-> "missing", out |-> <<>>]
Ok(lines) == [status |-> "ok", out |-> lines]

\* lines of `ddcutil detect`: "Display <num>", "   Model: <model>", anything else;
\* a marker line carries its number word, as ddcutil prints it
DisplayLine(num) == [kind |-> "display", num |-> num, model |-> <<>>]
ModelLine(model) == [kind |-> "model", num |-> <<>>, model |-> model]
OtherLine == [kind |-> "other", num |-> <<>>, model |-> <<>>]

DetectOutputs ==
    { <<DisplayLine(<<"1">>), OtherLine, ModelLine(<<"A">>),
        DisplayLine(<<"2">>), ModelLine(<<"B">>)>>,
      <<OtherLine, DisplayLine(<<"3">>), ModelLine(<<"A">>)>>,
      <<DisplayLine(<<"1">>), OtherLine>>,
      <<ModelLine(<<"A">>), DisplayLine(<<"2">>), DisplayLine(<<"1">>), ModelLine(<<"B">>)>>,
      <<OtherLine>>,
      <<>> }
DetectResults == {Ok(o) : o \in DetectOutputs} \cup {Failed, Missing}

\* lines of `xrandr --listmonitors` and of `xrandr`: the whitespace-separated
\* fields of each line; a field the code does not take apart is one opaque word
W(word) == <<word>>
ListOutputs ==
    { <<<<W("Monitors:"), W("2")>>,
        <<W("0:"), W("+*eDP-1"), W("1920/344x1080/194+0+0"), NameEDP>>,
        <<>>,
        <<W("1:"), W("+DP-2"), W("1920/527x1080/296+1920+0"), NameDP>> >>,
      <<<<W("Monitors:"), W("1")>>,
        <<W("0:"), W("+*eDP-1"), NameEDP>>,
        <<W("0:"), W("+*eDP-1"), W("1920/344x1080/194+0+0"), NameEDP>> >>,
      <<<<W("Monitors:"), W("0")>>>>,
      <<>> }
ListResults == {Ok(o) : o \in ListOutputs} \cup {Failed, Missing}

XrandrOutputs ==
    { <<<<W("Screen"), W("0:")>>,
        <<NameEDP, W("connected"), W("primary")>>,
        <<NameDP, W("disconnected")>>,
        <<W("1920x1080"), W("60.00*+")>> >>,
      <<<<W("Screen"), W("0:")>>, <<NameDP, W("disconnected")>>>>,
      <<>> }
XrandrResults == {Ok(o) : o \in XrandrOutputs} \cup {Failed, Missing}

Envs ==
    [probe : DetectResults, detect : DetectResults,
     listmon : ListResults, xrandr : XrandrResults]

(***************************************************************************)
(* Backend probe and monitor registry.  A call returns                     *)
(* [raised, val]: raised = TRUE when an exception leaves the function.     *)
(***************************************************************************)
Return(v) == [raised |-> FALSE, val |-> v]
Raise == [raised |-> TRUE, val |-> <<>>]

Monitor(name, display_name, ddcutil_id) ==
    [name |-> name, display_name |-> display_name, ddcutil_id |-> ddcutil_id]

\* "Display 1" in stdout or "Display 2" in stdout
NamesDisplay1Or2(line) ==
    line.kind = "display" /\ Len(line.num) >= 1 /\ line.num[1] \in {"1", "2"}

check_ddcutil_available(r) ==
    IF r.status # "ok" THEN FALSE
    ELSE \E i \in 1..Len(r.out) : NamesDisplay1Or2(r.out[i])

\* the registry entry a model line adds, and the reset of the two loop variables
AppendMonitor(line, st) ==
    [monitors |->
        Append(st.monitors,
               Monitor(st.current_display,
                       line.model \o DisplayOpen \o st.display_num \o <<")">>,
                       st.display_num)),
     current_display |-> <<>>,
     display_num |-> <<>>]

\* variant: a model line adds an entry whether or not a marker line was seen
DetectStepUnguarded(line, st) ==
    IF line.kind = "display"
    THEN [st EXCEPT !.current_display = DisplayPrefix \o line.num,
                    !.display_num = line.num]
    ELSE IF line.kind = "model"
    THEN AppendMonitor(line, st)
    ELSE st

\* one turn of the loop of get_ddcutil_monitors over a line of the output;
\* st = [monitors, current_display, display_num]
DetectStep(line, st) ==
    IF line.kind = "display"
    THEN [st EXCEPT !.current_display = DisplayPrefix \o line.num,
                    !.display_num = line.num]
    ELSE IF line.kind = "model" /\ st.current_display # <<>> /\ st.display_num # <<>>
    THEN AppendMonitor(line, st)
    ELSE st

\* the loop of get_ddcutil_monitors
RECURSIVE DetectLoop(_, _)
DetectLoop(lines, st) ==
    IF lines = <<>> THEN st.monitors
    ELSE DetectLoop(Tail(lines), DetectStep(Head(lines), st))

DefaultMonitors == <<Monitor(DefaultName, DefaultDisplayName, NoId)>>

XrandrMonitor(monitor_name) ==
    Monitor(monitor_name, Title(Replace(monitor_name, "-", " ")), NoId)

\* ' connected' in line
HasConnected(line) == \E i \in 2..Len(line) : line[i] = W("connected")

get_xrandr_monitors(e) ==
    CASE e.listmon.status = "missing" -> Raise
      [] e.listmon.status = "ok" ->
            LET body == IF e.listmon.out = <<>> THEN <<>>
                        ELSE Tail(e.listmon.out)      \* [1:], skip header
                keep == {i \in 1..Len(body) : Len(body[i]) >= 4}
                rows == SelectIdx(body, keep)
            IN Return([i \in 1..Len(rows) |-> XrandrMonitor(rows[i][4])])
      [] e.listmon.status = "fail" ->
            CASE e.xrandr.status = "missing" -> Raise
              [] e.xrandr.status = "ok" ->
                    LET keep == {i \in 1..Len(e.xrandr.out) : HasConnected(e.xrandr.out[i])}
                        rows == SelectIdx(e.xrandr.out, keep)
                    IN Return([i \in 1..Len(rows) |-> XrandrMonitor(rows[i][1])])
              [] e.xrandr.status = "fail" -> Return(DefaultMonitors)

get_ddcutil_monitors(e) ==
    CASE e.detect.status = "missing" -> Raise
      [] e.detect.status = "ok" ->
            Return(DetectLoop(e.detect.out,
                              [monitors |-> <<>>, current_display |-> <<>>,
                               display_num |-> <<>>]))
      [] e.detect.status = "fail" -> get_xrandr_monitors(e)

get_monitors(use, e) ==
    IF use THEN get_ddcutil_monitors(e) ELSE get_xrandr_monitors(e)

\* the ddcutil_id of the first registry entry named monitor, None when there is none
RECURSIVE FindDdcutilId(_, _)
FindDdcutilId(mons, monitor) ==
    IF mons = <<>> THEN NoId
    ELSE IF Head(mons).name = monitor THEN Head(mons).ddcutil_id
    ELSE FindDdcutilId(Tail(mons), monitor)

(***************************************************************************)
(* Values, dictionaries and the durable cache.                             *)
(***************************************************************************)
MinBrightness == 100     \* 0.1
MaxBrightness == 1000    \* 1.0
DefaultBrightness == 1000

\* variant: the lower bound is forgotten
ClampUpperOnly(brightness) == Min(MaxBrightness, brightness)

\* max(0.1, min(1.0, brightness))
Clamp(brightness) == Max(MinBrightness, Min(MaxBrightness, brightness))

None == [some |-> FALSE, val |-> 0]
Some(v) == [some |-> TRUE, val |-> v]

EmptyDict == [k \in {} |-> 0]
DictPut(d, k, v) == [x \in DOMAIN d \cup {k} |-> IF x = k THEN v ELSE d[x]]
DictGet(d, k, default) == IF k \in DOMAIN d THEN d[k] ELSE default

\* the file name of a monitor's cache record
CachePrefix == <<"brightness_">>
GetCacheFile(monitor) == CachePrefix \o Replace(Replace(monitor, "/", "_"), " ", "_")

\* file contents: no file, text that float() rejects, or a two-decimal number
\* held as an integer number of hundredths
NoFile == [kind |-> "none", hundredths |-> 0]
Garbage == [kind |-> "garbage", hundredths |-> 0]
NumberText(h) == [kind |-> "num", hundredths |-> h]

\* variant: f"{brightness:.1f}"
Format1(brightness) == ((brightness + 50) \div 100) * 10

\* f"{brightness:.2f}": the nearest hundredth (the inputs of the model have no ties)
Format2(brightness) == (brightness + 5) \div 10
\* float(text), in thousandths
ParseFloat(h) == h * 10

ReadCachedBrightness(files, monitor, io) ==
    LET f == DictGet(files, GetCacheFile(monitor), NoFile)
    IN IF io = "ok" /\ f.kind = "num"
       THEN Some(Max(0, Min(1000, ParseFloat(f.hundredths))))
       ELSE None

\* io: "ok"; "fail" (IOError before anything is written); "truncated" (IOError after
\* write_text opened and truncated the file)
WriteCachedBrightness(files, monitor, brightness, io) ==
    CASE io = "ok" -> DictPut(files, GetCacheFile(monitor), NumberText(Format2(brightness)))
      [] io = "truncated" -> DictPut(files, GetCacheFile(monitor), Garbage)
      [] OTHER -> files

(***************************************************************************)
(* The hardware brightness query (ddcutil getvcp 10).                      *)
(***************************************************************************)
\* lines of the query output: one with "current value = X, max value = Y", one whose
\* number int() rejects, one without "max value = ", or any other line
ValueLine(current, max_val) == [kind |-> "value", current |-> current, max_val |-> max_val]
BadIntLine == [kind |-> "badint", current |-> 0, max_val |-> 0]
NoMaxLine == [kind |-> "nomax", current |-> 0, max_val |-> 0]
OtherQueryLine == [kind |-> "other", current |-> 0, max_val |-> 0]

QueryOutputs ==
    { <<OtherQueryLine, ValueLine(80, 100)>>,
      <<ValueLine(150, 100)>>,
      <<ValueLine(5, 100)>>,
      <<ValueLine(5, 0)>>,
      <<BadIntLine>>,
      <<OtherQueryLine, NoMaxLine>>,
      <<OtherQueryLine>> }
QueryResults == {Ok(o) : o \in QueryOutputs} \cup {Failed, Missing}

\* variant: the current value taken as a percentage, whatever the maximum
RatioPercent(current, max_val) == current * 10

\* brightness = current / max_val, in thousandths
Ratio(current, max_val) == (current * 1000) \div max_val

\* the parsing loop: [raised, found, val]; raised = TRUE is an exception the
\* except clause does not name (ZeroDivisionError), found = FALSE falls through
\* to the last return (no matching line, or a caught ValueError / IndexError)
RECURSIVE QueryLoop(_)
QueryLoop(lines) ==
    IF lines = <<>> THEN [raised |-> FALSE, found |-> FALSE, val |-> 0]
    ELSE LET line == Head(lines)
         IN CASE line.kind = "other" -> QueryLoop(Tail(lines))
              [] line.kind \in {"badint", "nomax"} ->
                    [raised |-> FALSE, found |-> FALSE, val |-> 0]
              [] line.kind = "value" ->
                    IF line.max_val = 0
                    THEN [raised |-> TRUE, found |-> FALSE, val |-> 0]
                    ELSE [raised |-> FALSE, found |-> TRUE,
                          val |-> Ratio(line.current, line.max_val)]

\* [raised, val, cache, queried]: the value returned, the in-memory view afterwards,
\* and whether the query command was run
get_ddcutil_brightness(mons, cache, monitor, q) ==
    LET last(ran) == [raised |-> FALSE,
                      val |-> DictGet(cache, monitor, DefaultBrightness),
                      cache |-> cache, queried |-> ran]
        raise == [raised |-> TRUE, val |-> 0, cache |-> cache, queried |-> TRUE]
    IN IF FindDdcutilId(mons, monitor) = NoId THEN last(FALSE)
       ELSE CASE q.status = "missing" -> raise
              [] q.status = "fail" -> last(TRUE)
              [] q.status = "ok" ->
                    LET r == QueryLoop(q.out)
                    IN IF r.raised THEN raise
                       ELSE IF r.found
                       THEN [raised |-> FALSE, val |-> r.val,
                             cache |-> DictPut(cache, monitor, r.val),
                             queried |-> TRUE]
                       ELSE last(TRUE)

\* [raised, val, cache, files, hit, queried]
get_brightness(use, mons, cache, files, monitor, rio, q, wio) ==
    LET cached == ReadCachedBrightness(files, monitor, rio)
    IN IF cached.some
       THEN [raised |-> FALSE, val |-> cached.val, cache |-> cache, files |-> files,
             hit |-> TRUE, queried |-> FALSE]
       ELSE LET r == IF use THEN get_ddcutil_brightness(mons, cache, monitor, q)
                     ELSE [raised |-> FALSE,
                           val |-> DictGet(cache, monitor, DefaultBrightness),
                           cache |-> cache, queried |-> FALSE]
            IN IF r.raised
               THEN [raised |-> TRUE, val |-> 0, cache |-> r.cache, files |-> files,
                     hit |-> FALSE, queried |-> r.queried]
               ELSE [raised |-> FALSE, val |-> r.val, cache |-> r.cache,
                     files |-> WriteCachedBrightness(files, monitor, r.val, wio),
                     hit |-> FALSE, queried |-> r.queried]

(***************************************************************************)
(* The pending-write map: a dict in insertion order, a sequence of         *)
(* [monitor, brightness, ts] with one entry per key.                       *)
(***************************************************************************)
Entry(monitor, brightness, ts) == [monitor |-> monitor, brightness |-> brightness, ts |-> ts]

HasKey(p, monitor) == \E i \in 1..Len(p) : p[i].monitor = monitor

\* variant: an entry already pending is kept (dict.setdefault)
PendingPutIfAbsent(p, monitor, brightness, ts) ==
    IF HasKey(p, monitor) THEN p ELSE Append(p, Entry(monitor, brightness, ts))

\* variant: a queue of writes, the newest first, nothing superseded
PendingPutFront(p, monitor, brightness, ts) == <<Entry(monitor, brightness, ts)>> \o p

\* self.pending_changes[monitor] = (brightness, time.time())
PendingPut(p, monitor, brightness, ts) ==
    IF HasKey(p, monitor)
    THEN [i \in 1..Len(p) |->
            IF p[i].monitor = monitor THEN Entry(monitor, brightness, ts) ELSE p[i]]
    ELSE Append(p, Entry(monitor, brightness, ts))

\* to_apply = dict(self.pending_changes); self.pending_changes.clear()
SwapOut(p) == [taken |-> p, left |-> <<>>]

\* variant: the outcome of the cache write is returned
SetResultOfWrite(wio) == wio = "ok"

\* the return statement of set_brightness
SetResult(wio) == TRUE

(***************************************************************************)
(* Bounds and inputs.                                                      *)
(***************************************************************************)
MaxCalls == 2       \* foreground calls (set_brightness, get_brightness) in a run
MaxSets == 3        \* set_brightness calls in a run of the writer alone
MaxRoundTrips == 1  \* write-then-read rounds in a run of the cache alone
MaxQueries == 1     \* hardware queries in a run of the query alone
MaxEvents == 2      \* user events (slider moves, reset clicks) in a run of the window

InputValues == {50, 337, 1500}
IoOutcomes == {"ok", "fail"}
ReadOutcomes == {"ok", "fail"}
ApplyOutcomes == {"ok", "fail", "missing"}

\* names that are in no registry (the CLI's --monitor takes any string)
ExtraNames == {}

DetectTwo ==
    Ok(<<DisplayLine(<<"1">>), OtherLine, ModelLine(<<"A">>),
         DisplayLine(<<"2">>), ModelLine(<<"B">>)>>)
ListTwo ==
    Ok(<<<<W("Monitors:"), W("2")>>,
         <<W("0:"), W("+*eDP-1"), W("1920/344x1080/194+0+0"), NameEDP>>,
         <<>>,
         <<W("1:"), W("+DP-2"), W("1920/527x1080/296+1920+0"), NameDP>> >>)

\* the environments of the runs of the whole controller
RunEnvs ==
    { [probe |-> DetectTwo, detect |-> DetectTwo, listmon |-> ListTwo, xrandr |-> Failed],
      [probe |-> DetectTwo, detect |-> Failed, listmon |-> ListTwo, xrandr |-> Failed],
      [probe |-> Failed, detect |-> Failed, listmon |-> ListTwo, xrandr |-> Failed],
      [probe |-> Missing, detect |-> Missing, listmon |-> Missing, xrandr |-> Missing] }

\* the cache directory a run starts with: an earlier run left a record (0.80) for
\* the first monitor and none for the others
InitialDirs ==
    { [k \in {GetCacheFile(DisplayPrefix \o <<"1">>), GetCacheFile(NameEDP)}
          |-> NumberText(80)] }

RegistryNames == {monitors[i].name : i \in 1..Len(monitors)}
CallNames == RegistryNames \cup ExtraNames

NoCall == [monitor |-> <<>>, value |-> 0, brightness |-> 0, io |-> "ok"]
NoEntry == Entry(<<>>, 0, 0)

(***************************************************************************)
(* Construction.                                                           *)
(***************************************************************************)
InitWith(envs) ==
    /\ env \in envs
    /\ pc = "new"
    /\ use_ddcutil = FALSE
    /\ monitors = <<>>
    /\ brightness_cache = EmptyDict
    /\ cache_files \in InitialDirs
    /\ pending_changes = <<>>
    /\ change_lock = "free"
    /\ fpc = "idle"
    /\ fcall = NoCall
    /\ wpc = "none"
    /\ to_apply = <<>>
    /\ wcall = NoEntry
    /\ clock = 0
    /\ window = <<>>
    /\ swept = <<>>
    /\ swept_since = FALSE
    /\ hw_log = <<>>
    /\ applied = EmptyDict
    /\ fg_log = <<>>

\* no command line: the controller is driven by its callers (the GUI, the tests)
NoArg == [some |-> FALSE, val |-> <<>>]
NoCli == [pc |-> "none", brightness |-> None, step |-> NoArg, monitor |-> NoArg,
          todo |-> <<>>, code |-> -1, printed |-> "nothing"]

\* no window: the controller is used without LumonitorGUI
NoSource == [id |-> 0, monitor |-> <<>>, seq |-> 0]
NoGui == [pc |-> "none", todo |-> <<>>, cur |-> NoSource,
          pending_changes |-> EmptyDict, change_timers |-> EmptyDict,
          is_updating |-> FALSE, sources |-> {}, next_id |-> 1,
          events |-> 0, last |-> EmptyDict, fired |-> <<>>, reset |-> 0]

Init == InitWith(RunEnvs) /\ cli = NoCli /\ gui = NoGui

\* BrightnessController.__init__
Construct ==
    /\ pc = "new"
    /\ LET use == check_ddcutil_available(env.probe)
           r == get_monitors(use, env)
       IN /\ use_ddcutil' = use
          /\ IF r.raised
             THEN /\ pc' = "ctor_raised"
                  /\ UNCHANGED <<monitors, wpc>>
             ELSE /\ pc' = "running"
                  /\ monitors' = r.val
                  /\ wpc' = "sleep"
    /\ UNCHANGED <<env, brightness_cache, cache_files, pending_changes, change_lock,
                   fpc, fcall, to_apply, wcall, clock, window, swept, swept_since,
                   hw_log, applied, fg_log, cli, gui>>

(***************************************************************************)
(* The foreground caller.                                                  *)
(***************************************************************************)
\* set_brightness up to the lock: clamp, cache file, in-memory view
SetBegin(monitor, value, wio) ==
    /\ pc = "running" /\ fpc = "idle"
    /\ clock' = clock + 1
    /\ LET brightness == Clamp(value)
       IN /\ cache_files' = WriteCachedBrightness(cache_files, monitor, brightness, wio)
          /\ brightness_cache' = DictPut(brightness_cache, monitor, brightness)
          /\ fcall' = [monitor |-> monitor, value |-> value,
                       brightness |-> brightness, io |-> wio]
    /\ fpc' = "set_lock"
    /\ UNCHANGED <<env, pc, use_ddcutil, monitors, pending_changes, change_lock,
                   wpc, to_apply, wcall, window, swept, swept_since, hw_log, applied,
                   fg_log, cli, gui>>

\* with self.change_lock: (entry)
SetAcquire ==
    /\ fpc = "set_lock"
    /\ change_lock = "free"
    /\ change_lock' = "fg"
    /\ fpc' = "set_insert"
    /\ UNCHANGED <<env, pc, use_ddcutil, monitors, brightness_cache, cache_files,
                   pending_changes, fcall, wpc, to_apply, wcall, clock, window, swept,
                   swept_since, hw_log, applied, fg_log, cli, gui>>

\* the insert under the lock, the release and the return
SetInsert ==
    /\ fpc = "set_insert"
    /\ pending_changes' =
          PendingPut(pending_changes, fcall.monitor, fcall.brightness, clock)
    /\ change_lock' = "free"
    /\ window' = Append(window, Entry(fcall.monitor, fcall.brightness, clock))
    /\ fg_log' = <<
          [op |-> "set", monitor |-> fcall.monitor, value |-> fcall.value,
           brightness |-> fcall.brightness, io |-> fcall.io,
           after_sweep |-> swept_since, hit |-> FALSE, queried |-> FALSE,
           raised |-> FALSE, ret |-> SetResult(fcall.io)] >>
    /\ swept_since' = FALSE
    /\ fpc' = "idle"
    /\ fcall' = NoCall
    /\ UNCHANGED <<env, pc, use_ddcutil, monitors, brightness_cache, cache_files,
                   wpc, to_apply, wcall, clock, swept, hw_log, applied, cli, gui>>

\* get_brightness; rio, q, wio: the outcomes of the cache read, of the hardware
\* query and of the cache write-back
GetBrightness(monitor, rio, q, wio) ==
    /\ pc = "running" /\ fpc = "idle"
    /\ clock' = clock + 1
    /\ LET r == get_brightness(use_ddcutil, monitors, brightness_cache, cache_files,
                               monitor, rio, q, wio)
       IN /\ brightness_cache' = r.cache
          /\ cache_files' = r.files
          /\ fg_log' = <<
                [op |-> "get", monitor |-> monitor, value |-> 0,
                 brightness |-> r.val, io |-> "ok",
                 after_sweep |-> swept_since, hit |-> r.hit, queried |-> r.queried,
                 raised |-> r.raised, ret |-> ~r.raised] >>
    /\ swept_since' = FALSE
    /\ UNCHANGED <<env, pc, use_ddcutil, monitors, pending_changes, change_lock,
                   fpc, fcall, wpc, to_apply, wcall, window, swept, hw_log, applied,
                   cli, gui>>

(***************************************************************************)
(* The worker thread (_worker_loop).                                       *)
(***************************************************************************)
\* after the sleep: with self.change_lock: (entry)
WorkerAcquire ==
    /\ wpc = "sleep"
    /\ change_lock = "free"
    /\ change_lock' = "worker"
    /\ wpc' = "locked"
    /\ UNCHANGED <<env, pc, use_ddcutil, monitors, brightness_cache, cache_files,
                   pending_changes, fpc, fcall, to_apply, wcall, clock, window, swept,
                   swept_since, hw_log, applied, fg_log, cli, gui>>

\* the hardware calls still in progress
Running(log) == SelectSeq(log, LAMBDA c : c.outcome = "running")

\* variant: the for loop runs inside the with-block
AfterSwapHoldingLock == [lock |-> "worker", wpc |-> "apply"]

\* the lock and the position of the worker when the with-block is left with work
AfterSwap == [lock |-> "free", wpc |-> "apply"]

\* under the lock: continue when nothing is pending, else swap the map out
WorkerSwap ==
    /\ wpc = "locked"
    /\ IF pending_changes = <<>>
       THEN /\ change_lock' = "free"
            /\ wpc' = "sleep"
            /\ UNCHANGED <<pending_changes, to_apply, window, swept, swept_since, hw_log>>
       ELSE /\ to_apply' = SwapOut(pending_changes).taken
            /\ pending_changes' = SwapOut(pending_changes).left
            /\ swept' = window
            /\ window' = <<>>
            /\ swept_since' = TRUE
            /\ hw_log' = Running(hw_log)
            /\ change_lock' = AfterSwap.lock
            /\ wpc' = AfterSwap.wpc
    /\ UNCHANGED <<env, pc, use_ddcutil, monitors, brightness_cache, cache_files,
                   fpc, fcall, wcall, clock, applied, fg_log, cli, gui>>

\* variant: the command is started and not waited for (subprocess.Popen)
AfterStartNoWait(rest) == IF rest = <<>> THEN "sleep" ELSE "apply"

\* the position of the worker once the command is started: subprocess.run returns
\* when the command has ended
AfterStart(rest) == "in_call"

\* the next item of the for loop: the call of _apply_brightness_hardware
ApplyBegin ==
    /\ wpc = "apply"
    /\ to_apply # <<>>
    /\ wcall' = Head(to_apply)
    /\ to_apply' = Tail(to_apply)
    /\ hw_log' = Append(hw_log,
          [monitor |-> Head(to_apply).monitor, brightness |-> Head(to_apply).brightness,
           ts |-> Head(to_apply).ts, outcome |-> "running"])
    /\ applied' = DictPut(applied, Head(to_apply).monitor,
                          Append(DictGet(applied, Head(to_apply).monitor, <<>>),
                                 Head(to_apply).ts))
    /\ wpc' = AfterStart(Tail(to_apply))
    /\ UNCHANGED <<env, pc, use_ddcutil, monitors, brightness_cache, cache_files,
                   pending_changes, change_lock, fpc, fcall, clock, window, swept,
                   swept_since, fg_log, cli, gui>>

\* the outcomes the call can have: without a ddcutil_id set_ddcutil_brightness
\* returns before it runs a command
PossibleOutcomes(use, mons, monitor) ==
    IF use /\ FindDdcutilId(mons, monitor) = NoId THEN {"noid"} ELSE ApplyOutcomes

\* the in-memory view after set_ddcutil_brightness / set_xrandr_brightness
AfterApply(cache, monitor, brightness, outcome) ==
    IF outcome = "ok" THEN DictPut(cache, monitor, brightness) ELSE cache

\* the position of the worker after the call: an exception the call does not
\* catch (FileNotFoundError) ends the thread
AfterCall(outcome, rest) ==
    IF outcome = "missing" THEN "dead"
    ELSE IF rest = <<>> THEN "sleep" ELSE "apply"

\* variant: a failed apply is queued again
PendingAfterApplyRetry(p, entry, outcome) ==
    IF outcome = "fail" /\ ~HasKey(p, entry.monitor) THEN Append(p, entry) ELSE p

\* self.pending_changes after a hardware call: the result is dropped (line 63),
\* the error is printed (lines 273-275, 285-287), nothing is queued
PendingAfterApply(p, entry, outcome) == p

\* variant: a failed command makes the controller fall back to xrandr
BackendReprobed(use, outcome) == use /\ outcome \notin {"fail", "missing"}

\* self.use_ddcutil after a hardware command: it is read, never assigned
Backend(use, outcome) == use

\* the call returns or raises; a call that hangs never takes this step
ApplyEnd(outcome) ==
    /\ wpc = "in_call"
    /\ outcome \in PossibleOutcomes(use_ddcutil, monitors, wcall.monitor)
    /\ use_ddcutil' = Backend(use_ddcutil, outcome)
    /\ pending_changes' = PendingAfterApply(pending_changes, wcall, outcome)
    /\ brightness_cache' =
          AfterApply(brightness_cache, wcall.monitor, wcall.brightness, outcome)
    /\ hw_log' = [hw_log EXCEPT ![Len(hw_log)].outcome = outcome]
    /\ wpc' = AfterCall(outcome, to_apply)
    /\ wcall' = NoEntry
    /\ UNCHANGED <<env, pc, monitors, cache_files,
                   change_lock, fpc, fcall, to_apply, clock, window, swept,
                   swept_since, applied, fg_log, cli, gui>>

Next ==
    \/ Construct
    \/ \E m \in CallNames, v \in InputValues, wio \in IoOutcomes :
          clock < MaxCalls /\ SetBegin(m, v, wio)
    \/ SetAcquire
    \/ SetInsert
    \/ \E m \in CallNames, rio \in ReadOutcomes, q \in QueryResults, wio \in IoOutcomes :
          clock < MaxCalls /\ GetBrightness(m, rio, q, wio)
    \/ WorkerAcquire
    \/ WorkerSwap
    \/ ApplyBegin
    \/ \E o \in ApplyOutcomes \cup {"noid"} : ApplyEnd(o)

Spec == Init /\ [][Next]_vars

(***************************************************************************)
(* The asynchronous writer alone: set_brightness calls, whose cache writes *)
(* succeed, and the worker; longer runs than Spec.                         *)
(***************************************************************************)
NextWriter ==
    \/ Construct
    \/ \E m \in CallNames, v \in InputValues : clock < MaxSets /\ SetBegin(m, v, "ok")
    \/ SetAcquire
    \/ SetInsert
    \/ WorkerAcquire
    \/ WorkerSwap
    \/ ApplyBegin
    \/ \E o \in ApplyOutcomes \cup {"noid"} : ApplyEnd(o)

SpecWriter == Init /\ [][NextWriter]_vars

\* the same with a fair scheduler: the worker thread wakes up every 50 ms and gets
\* the lock, which set_brightness holds for one statement; every hardware call
\* ends, by returning or by raising; a set_brightness that was called returns
Fairness ==
    /\ WF_vars(WorkerAcquire)
    /\ WF_vars(WorkerSwap)
    /\ WF_vars(ApplyBegin)
    /\ WF_vars(\E o \in ApplyOutcomes \cup {"noid"} : ApplyEnd(o))
    /\ WF_vars(SetAcquire)
    /\ WF_vars(SetInsert)
SpecWriterFair == SpecWriter /\ Fairness

(***************************************************************************)
(* Construction alone, over every combination of discovery outcomes.       *)
(***************************************************************************)
InitDiscovery == InitWith(Envs) /\ cli = NoCli /\ gui = NoGui
SpecDiscovery == InitDiscovery /\ [][Construct]_vars

(***************************************************************************)
(* The command line: main() with --brightness or --brightness-step.        *)
(***************************************************************************)
\* float(text) for the decimal texts [sign] digits [. digits], at most three
\* decimals, in thousandths; None is the ValueError of any other text
Digits == <<"0", "1", "2", "3", "4", "5", "6", "7", "8", "9">>
IsDigit(c) == \E i \in 1..10 : Digits[i] = c
DigitValue(c) == (CHOOSE i \in 1..10 : Digits[i] = c) - 1
AllDigits(s) == \A i \in 1..Len(s) : IsDigit(s[i])
RECURSIVE Number(_)
Number(s) ==
    IF s = <<>> THEN 0
    ELSE 10 * Number(SubSeq(s, 1, Len(s) - 1)) + DigitValue(s[Len(s)])
Pow10(n) == IF n = 0 THEN 1 ELSE IF n = 1 THEN 10 ELSE IF n = 2 THEN 100 ELSE 1000
Float(text) ==
    LET signed == text # <<>> /\ text[1] \in {"+", "-"}
        sign == IF signed /\ text[1] = "-" THEN -1 ELSE 1
        body == IF signed THEN Tail(text) ELSE text
        dots == {i \in 1..Len(body) : body[i] = "."}
        dot == IF dots = {} THEN Len(body) + 1 ELSE CHOOSE i \in dots : TRUE
        whole == SubSeq(body, 1, dot - 1)
        frac == SubSeq(body, dot + 1, Len(body))
        ok == /\ Cardinality(dots) <= 1
              /\ AllDigits(whole) /\ AllDigits(frac)
              /\ Len(whole) + Len(frac) >= 1
              /\ Len(frac) <= 3
    IN IF ok
       THEN Some(sign * (1000 * Number(whole) + Pow10(3 - Len(frac)) * Number(frac)))
       ELSE None

Arg(v) == [some |-> TRUE, val |-> v]
StepDown == <<"-", "5", ".", "0">>
StepUp == <<"+", "5", ".", "0">>
StepSmall == <<"-", "0", ".", "1">>
StepJunk == <<"u", "p">>
StepTexts == {StepDown, StepUp, StepSmall, StepJunk}
MonitorArgs == {NoArg, Arg(NameEDP)}

\* args after parse_args: --brightness LEVEL or --brightness-step STEP, with or
\* without --monitor NAME
CliArgs(brightness, step, monitor) ==
    [pc |-> "start", brightness |-> brightness, step |-> step, monitor |-> monitor,
     todo |-> <<>>, code |-> -1, printed |-> "nothing"]
CliRuns ==
    {CliArgs(Some(337), NoArg, m) : m \in MonitorArgs}
    \cup {CliArgs(None, Arg(t), m) : t \in StepTexts, m \in MonitorArgs}

\* the process ends: the exit code, and the daemon thread ends with it
Exit(code, printed) == [cli EXCEPT !.pc = "exited", !.code = code, !.printed = printed]
AtExit == "exited"

\* monitors = [args.monitor] if args.monitor else [m['name'] for m in controller.monitors]
CliStart ==
    /\ cli.pc = "start" /\ pc = "running"
    /\ cli' = [cli EXCEPT !.pc = "loop",
                          !.todo = IF cli.monitor.some /\ cli.monitor.val # <<>>
                                   THEN <<cli.monitor.val>>
                                   ELSE [i \in 1..Len(monitors) |-> monitors[i].name]]
    /\ UNCHANGED <<env, pc, use_ddcutil, monitors, brightness_cache, cache_files,
                   pending_changes, change_lock, fpc, fcall, wpc, to_apply, wcall,
                   clock, window, swept, swept_since, hw_log, applied, fg_log, gui>>

\* BrightnessController() raised: the exception leaves main
CliCrash ==
    /\ cli.pc = "start" /\ pc = "ctor_raised"
    /\ cli' = Exit(1, "traceback")
    /\ UNCHANGED <<env, pc, use_ddcutil, monitors, brightness_cache, cache_files,
                   pending_changes, change_lock, fpc, fcall, wpc, to_apply, wcall,
                   clock, window, swept, swept_since, hw_log, applied, fg_log, gui>>

\* one turn of the loop with --brightness: set_brightness up to the lock
CliSet(wio) ==
    /\ cli.pc = "loop" /\ fpc = "idle" /\ cli.todo # <<>>
    /\ cli.brightness.some
    /\ LET monitor == Head(cli.todo)
           brightness == Clamp(cli.brightness.val)
       IN /\ cache_files' = WriteCachedBrightness(cache_files, monitor, brightness, wio)
          /\ brightness_cache' = DictPut(brightness_cache, monitor, brightness)
          /\ fcall' = [monitor |-> monitor, value |-> cli.brightness.val,
                       brightness |-> brightness, io |-> wio]
    /\ clock' = clock + 1
    /\ fpc' = "set_lock"
    /\ cli' = [cli EXCEPT !.todo = Tail(cli.todo), !.printed = "set"]
    /\ UNCHANGED <<env, pc, use_ddcutil, monitors, pending_changes, change_lock,
                   wpc, to_apply, wcall, window, swept, swept_since, hw_log, applied,
                   fg_log, gui>>

\* current + step, clamped
NewBrightness(current, step) == Max(MinBrightness, Min(MaxBrightness, current + step))

\* one turn of the loop with --brightness-step: float(), get_brightness, the clamp
\* and set_brightness up to the lock; a ValueError is printed, any other exception
\* leaves main
CliStep(rio, q, gio, wio) ==
    /\ cli.pc = "loop" /\ fpc = "idle" /\ cli.todo # <<>>
    /\ ~cli.brightness.some /\ cli.step.some
    /\ LET monitor == Head(cli.todo)
           step == Float(cli.step.val)
           r == get_brightness(use_ddcutil, monitors, brightness_cache, cache_files,
                               monitor, rio, q, gio)
           new_brightness == NewBrightness(r.val, step.val)
           brightness == Clamp(new_brightness)
       IN IF ~step.some
          THEN /\ cli' = [cli EXCEPT !.todo = Tail(cli.todo), !.printed = "invalid"]
               /\ UNCHANGED <<brightness_cache, cache_files, fcall, fpc, clock, wpc,
                              fg_log, swept_since>>
          ELSE /\ fg_log' = <<
                     [op |-> "get", monitor |-> monitor, value |-> 0,
                      brightness |-> r.val, io |-> "ok",
                      after_sweep |-> swept_since, hit |-> r.hit, queried |-> r.queried,
                      raised |-> r.raised, ret |-> ~r.raised] >>
               /\ swept_since' = FALSE
               /\ clock' = clock + 1
               /\ IF r.raised
                  THEN /\ cli' = Exit(1, "traceback")
                       /\ wpc' = AtExit
                       /\ brightness_cache' = r.cache
                       /\ cache_files' = r.files
                       /\ UNCHANGED <<fcall, fpc>>
                  ELSE /\ cli' = [cli EXCEPT !.todo = Tail(cli.todo), !.printed = "adjusted"]
                       /\ cache_files' = WriteCachedBrightness(r.files, monitor, brightness, wio)
                       /\ brightness_cache' = DictPut(r.cache, monitor, brightness)
                       /\ fcall' = [monitor |-> monitor, value |-> new_brightness,
                                    brightness |-> brightness, io |-> wio]
                       /\ fpc' = "set_lock"
                       /\ UNCHANGED wpc
    /\ UNCHANGED <<env, pc, use_ddcutil, monitors, pending_changes, change_lock,
                   to_apply, wcall, window, swept, hw_log, applied, gui>>

\* the loop is over: return, and the interpreter exits with code 0
CliReturn ==
    /\ cli.pc = "loop" /\ fpc = "idle" /\ cli.todo = <<>>
    /\ cli' = Exit(0, cli.printed)
    /\ wpc' = AtExit
    /\ UNCHANGED <<env, pc, use_ddcutil, monitors, brightness_cache, cache_files,
                   pending_changes, change_lock, fpc, fcall, to_apply, wcall,
                   clock, window, swept, swept_since, hw_log, applied, fg_log, gui>>

NextCli ==
    \/ Construct
    \/ CliStart
    \/ CliCrash
    \/ \E wio \in IoOutcomes : CliSet(wio)
    \/ \E rio \in ReadOutcomes, q \in QueryResults, gio \in IoOutcomes, wio \in IoOutcomes :
          CliStep(rio, q, gio, wio)
    \/ SetAcquire
    \/ SetInsert
    \/ CliReturn
    \/ WorkerAcquire
    \/ WorkerSwap
    \/ ApplyBegin
    \/ \E o \in ApplyOutcomes \cup {"noid"} : ApplyEnd(o)

InitCli == InitWith(RunEnvs) /\ cli \in CliRuns /\ gui = NoGui
SpecCli == InitCli /\ [][NextCli]_vars

(***************************************************************************)
(* The cache alone: _write_cached_brightness then _read_cached_brightness  *)
(* of the same monitor, by the same controller or by a new one on the same *)
(* directory.                                                              *)
(***************************************************************************)
\* every value of [0.0, 1.0] with two decimals
TwoDecimals == {10 * h : h \in 0..100}
\* monitor ids: a plain one, one whose file name is sanitized, and one that
\* equals the sanitized form of the second
NameSlash == <<"D", "P", "/", "1", " ", "a">>
NameUnderscore == <<"D", "P", "_", "1", "_", "a">>
CacheNames == {NameEDP, NameSlash, NameUnderscore}
\* neither function reads the backend: one environment
CacheEnv == [probe |-> Failed, detect |-> Failed, listmon |-> ListTwo, xrandr |-> Failed]

\* _write_cached_brightness(monitor, value)
CacheWrite(monitor, value, wio) ==
    /\ pc = "running" /\ fpc = "idle"
    /\ clock' = clock + 1
    /\ cache_files' = WriteCachedBrightness(cache_files, monitor, value, wio)
    /\ fcall' = [monitor |-> monitor, value |-> value, brightness |-> value, io |-> wio]
    /\ fpc' = "written"
    /\ fg_log' = <<>>
    /\ UNCHANGED <<env, pc, use_ddcutil, monitors, brightness_cache, pending_changes,
                   change_lock, wpc, to_apply, wcall, window, swept, swept_since,
                   hw_log, applied, cli, gui>>

\* the process ends and a new one starts: nothing but the directory is kept
Restart ==
    /\ pc = "running" /\ fpc = "written"
    /\ pc' = "new"
    /\ fpc' = "written_before"
    /\ use_ddcutil' = FALSE
    /\ monitors' = <<>>
    /\ brightness_cache' = EmptyDict
    /\ wpc' = "none"
    /\ UNCHANGED <<env, cache_files, pending_changes, change_lock, fcall, to_apply,
                   wcall, clock, window, swept, swept_since, hw_log, applied, fg_log,
                   cli, gui>>

\* _read_cached_brightness(monitor) of the monitor just written
CacheRead(rio) ==
    /\ pc = "running" /\ fpc \in {"written", "written_before"}
    /\ LET cached == ReadCachedBrightness(cache_files, fcall.monitor, rio)
       IN fg_log' = <<
             [op |-> IF fpc = "written" THEN "read" ELSE "read_fresh",
              monitor |-> fcall.monitor, value |-> fcall.value,
              brightness |-> cached.val, io |-> fcall.io,
              after_sweep |-> FALSE, hit |-> cached.some, queried |-> FALSE,
              raised |-> FALSE, ret |-> rio = "ok"] >>
    /\ fpc' = "idle"
    /\ fcall' = NoCall
    /\ UNCHANGED <<env, pc, use_ddcutil, monitors, brightness_cache, cache_files,
                   pending_changes, change_lock, wpc, to_apply, wcall, clock, window,
                   swept, swept_since, hw_log, applied, cli, gui>>

NextCache ==
    \/ Construct
    \/ \E m \in CacheNames, v \in TwoDecimals, wio \in IoOutcomes :
          clock < MaxRoundTrips /\ CacheWrite(m, v, wio)
    \/ Restart
    \/ \E rio \in ReadOutcomes : CacheRead(rio)

InitCache == InitWith({CacheEnv}) /\ cli = NoCli /\ gui = NoGui
SpecCache == InitCache /\ [][NextCache]_vars

(***************************************************************************)
(* The hardware query alone: get_ddcutil_brightness over outputs with one  *)
(* well-formed line, lines before it and lines after it.                   *)
(***************************************************************************)
ParseCurrents == {0, 5, 80, 100, 150}
ParseMaxima == {10, 100, 200}
ParseOutputs ==
    { pre \o <<ValueLine(x, y)>> \o post :
        pre \in {<<>>, <<OtherQueryLine>>, <<OtherQueryLine, OtherQueryLine>>, <<BadIntLine>>},
        x \in ParseCurrents, y \in ParseMaxima,
        post \in {<<>>, <<ValueLine(1, 1)>>, <<NoMaxLine>>} }
ParseResults == {Ok(o) : o \in ParseOutputs}

\* get_ddcutil_brightness(monitor) with the query output q
QueryBrightness(monitor, q) ==
    /\ pc = "running" /\ fpc = "idle"
    /\ clock' = clock + 1
    /\ LET r == get_ddcutil_brightness(monitors, brightness_cache, monitor, q)
       IN /\ brightness_cache' = r.cache
          /\ fg_log' = <<
                [op |-> "query", monitor |-> monitor, out |-> q.out,
                 brightness |-> r.val, queried |-> r.queried, raised |-> r.raised] >>
    /\ UNCHANGED <<env, pc, use_ddcutil, monitors, cache_files, pending_changes,
                   change_lock, fpc, fcall, wpc, to_apply, wcall, window, swept,
                   swept_since, hw_log, applied, cli, gui>>

NextQuery ==
    \/ Construct
    \/ \E m \in CallNames, q \in ParseResults :
          clock < MaxQueries /\ QueryBrightness(m, q)

SpecQuery == Init /\ [][NextQuery]_vars

(***************************************************************************)
(* The window: LumonitorGUI with its debounce of the sliders.  All of its  *)
(* handlers run on the GTK main loop, one at a time; a timeout of the main *)
(* loop is a source [id, monitor], and seq (history) is the number of the  *)
(* slider move that armed it.  The cache writes of the runs succeed.        *)
(***************************************************************************)
\* variant: the clean up deletes nothing
DictDelNothing(d, k) == d

\* del d[k]
DictDel(d, k) == [x \in DOMAIN d \ {k} |-> d[x]]

\* Gtk.Adjustment(lower=10, upper=100), set_digits(0): whole percents
SliderValues == {10, 34, 100}
\* the query outcomes while the window is built
GuiQueryResults == {Ok(<<OtherQueryLine, ValueLine(80, 100)>>), Missing}

\* GLib.source_remove(id)
SourceRemove(sources, id) == {src \in sources : src.id # id}

\* variant: the timer of the previous move is left armed
KeepPrevious(sources, timers, monitor) == sources

\* if monitor_name in self.change_timers: GLib.source_remove(...)
CancelPrevious(sources, timers, monitor) ==
    IF monitor \in DOMAIN timers THEN SourceRemove(sources, timers[monitor]) ELSE sources

\* on_brightness_changed(slider, monitor_name) with the slider at value
OnChanged(g, monitor, value) ==
    IF g.is_updating THEN g
    ELSE LET brightness == value * 10
             seq == g.events + 1
         IN [g EXCEPT
               !.pending_changes = DictPut(g.pending_changes, monitor, brightness),
               !.sources = CancelPrevious(g.sources, g.change_timers, monitor)
                              \cup {[id |-> g.next_id, monitor |-> monitor, seq |-> seq]},
               !.change_timers = DictPut(g.change_timers, monitor, g.next_id),
               !.next_id = g.next_id + 1,
               !.events = seq,
               !.last = DictPut(g.last, monitor, [seq |-> seq, value |-> brightness])]

\* Lumonitor.__init__: the window is created for a constructed controller
GuiStart ==
    /\ gui.pc = "none" /\ pc = "running"
    /\ gui' = [gui EXCEPT !.pc = IF monitors = <<>> THEN "idle" ELSE "creating",
                          !.todo = [i \in 1..Len(monitors) |-> monitors[i].name]]
    /\ UNCHANGED <<env, pc, use_ddcutil, monitors, brightness_cache, cache_files,
                   pending_changes, change_lock, fpc, fcall, wpc, to_apply, wcall,
                   clock, window, swept, swept_since, hw_log, applied, fg_log, cli>>

\* create_monitor_control: the slider starts at get_brightness(monitor), set before
\* the handler is connected; an exception of get_brightness ends the program
CreateMonitorControl(rio, q, wio) ==
    /\ gui.pc = "creating" /\ gui.todo # <<>>
    /\ LET monitor == Head(gui.todo)
           r == get_brightness(use_ddcutil, monitors, brightness_cache, cache_files,
                               monitor, rio, q, wio)
       IN /\ brightness_cache' = r.cache
          /\ cache_files' = r.files
          /\ fg_log' = <<
                [op |-> "get", monitor |-> monitor, value |-> 0,
                 brightness |-> r.val, io |-> "ok",
                 after_sweep |-> swept_since, hit |-> r.hit, queried |-> r.queried,
                 raised |-> r.raised, ret |-> ~r.raised] >>
          /\ IF r.raised
             THEN /\ gui' = [gui EXCEPT !.pc = "crashed"]
                  /\ wpc' = AtExit
             ELSE /\ gui' = [gui EXCEPT !.todo = Tail(gui.todo),
                                        !.pc = IF Tail(gui.todo) = <<>> THEN "idle"
                                               ELSE "creating"]
                  /\ UNCHANGED wpc
    /\ swept_since' = FALSE
    /\ clock' = clock + 1
    /\ UNCHANGED <<env, pc, use_ddcutil, monitors, pending_changes, change_lock,
                   fpc, fcall, to_apply, wcall, window, swept, hw_log, applied, cli>>

\* the user moves the slider of a monitor: on_brightness_changed
OnBrightnessChanged(monitor, value) ==
    /\ gui.pc = "idle" /\ fpc = "idle"
    /\ gui' = OnChanged(gui, monitor, value)
    /\ UNCHANGED <<env, pc, use_ddcutil, monitors, brightness_cache, cache_files,
                   pending_changes, change_lock, fpc, fcall, wpc, to_apply, wcall,
                   clock, window, swept, swept_since, hw_log, applied, fg_log, cli>>

\* a timeout of the main loop expires: apply_brightness_change(monitor_name) up to
\* the lock of set_brightness; fired (history) is the call and the last move then
TimerFire(src, wio) ==
    /\ gui.pc = "idle" /\ fpc = "idle"
    /\ src \in gui.sources
    /\ IF src.monitor \notin DOMAIN gui.pending_changes
       THEN /\ gui' = [gui EXCEPT !.sources = gui.sources \ {src}]
            /\ UNCHANGED <<brightness_cache, cache_files, fcall, fpc, clock>>
       ELSE LET value == gui.pending_changes[src.monitor]
                brightness == Clamp(value)
            IN /\ cache_files' =
                     WriteCachedBrightness(cache_files, src.monitor, brightness, wio)
               /\ brightness_cache' = DictPut(brightness_cache, src.monitor, brightness)
               /\ fcall' = [monitor |-> src.monitor, value |-> value,
                            brightness |-> brightness, io |-> wio]
               /\ fpc' = "set_lock"
               /\ clock' = clock + 1
               /\ gui' = [gui EXCEPT
                            !.pc = "applying",
                            !.cur = src,
                            !.fired = <<[monitor |-> src.monitor, value |-> value,
                                         seq |-> src.seq,
                                         last |-> gui.last[src.monitor]]>>]
    /\ UNCHANGED <<env, pc, use_ddcutil, monitors, pending_changes, change_lock,
                   wpc, to_apply, wcall, window, swept, swept_since, hw_log, applied,
                   fg_log, cli>>

\* set_brightness has returned True (the failure branch is never taken): the clean
\* up, and return False removes the source
GuiApplied ==
    /\ gui.pc = "applying" /\ fpc = "idle"
    /\ gui' = [gui EXCEPT
                 !.pc = "idle",
                 !.cur = NoSource,
                 !.pending_changes = DictDel(gui.pending_changes, gui.cur.monitor),
                 !.change_timers = DictDel(gui.change_timers, gui.cur.monitor),
                 !.sources = gui.sources \ {gui.cur}]
    /\ UNCHANGED <<env, pc, use_ddcutil, monitors, brightness_cache, cache_files,
                   pending_changes, change_lock, fpc, fcall, wpc, to_apply, wcall,
                   clock, window, swept, swept_since, hw_log, applied, fg_log, cli>>

\* variant: the reset clears the two dicts and leaves the timeouts armed
ResetKeepsSources(sources, timers) == sources

\* for monitor_name in list(self.change_timers.keys()): GLib.source_remove(...)
ResetSources(sources, timers) ==
    {src \in sources : \A m \in DOMAIN timers : src.id # timers[m]}

\* on_reset_clicked up to its loop
OnResetClicked ==
    /\ gui.pc = "idle" /\ fpc = "idle"
    /\ gui' = [gui EXCEPT
                 !.sources = ResetSources(gui.sources, gui.change_timers),
                 !.change_timers = EmptyDict,
                 !.pending_changes = EmptyDict,
                 !.is_updating = monitors # <<>>,
                 !.events = gui.events + 1,
                 !.reset = gui.events + 1,
                 !.todo = [i \in 1..Len(monitors) |-> monitors[i].name],
                 !.pc = IF monitors = <<>> THEN "idle" ELSE "resetting"]
    /\ UNCHANGED <<env, pc, use_ddcutil, monitors, brightness_cache, cache_files,
                   pending_changes, change_lock, fpc, fcall, wpc, to_apply, wcall,
                   clock, window, swept, swept_since, hw_log, applied, fg_log, cli>>

\* the loop of on_reset_clicked: set_brightness(monitor, 1.0) up to the lock
ResetSet(wio) ==
    /\ gui.pc = "resetting" /\ fpc = "idle"
    /\ LET monitor == Head(gui.todo)
           brightness == Clamp(MaxBrightness)
       IN /\ cache_files' = WriteCachedBrightness(cache_files, monitor, brightness, wio)
          /\ brightness_cache' = DictPut(brightness_cache, monitor, brightness)
          /\ fcall' = [monitor |-> monitor, value |-> MaxBrightness,
                       brightness |-> brightness, io |-> wio]
    /\ fpc' = "set_lock"
    /\ clock' = clock + 1
    /\ gui' = [gui EXCEPT !.pc = "reset_set"]
    /\ UNCHANGED <<env, pc, use_ddcutil, monitors, pending_changes, change_lock,
                   wpc, to_apply, wcall, window, swept, swept_since, hw_log, applied,
                   fg_log, cli>>

\* set_brightness has returned: slider.set_value(100) emits value-changed, whose
\* handler runs at once; after the last monitor is_updating is cleared
ResetSlider ==
    /\ gui.pc = "reset_set" /\ fpc = "idle"
    /\ LET g == OnChanged(gui, Head(gui.todo), 100)
           rest == Tail(gui.todo)
       IN gui' = [g EXCEPT !.todo = rest,
                           !.pc = IF rest = <<>> THEN "idle" ELSE "resetting",
                           !.is_updating = rest # <<>>]
    /\ UNCHANGED <<env, pc, use_ddcutil, monitors, brightness_cache, cache_files,
                   pending_changes, change_lock, fpc, fcall, wpc, to_apply, wcall,
                   clock, window, swept, swept_since, hw_log, applied, fg_log, cli>>

NextGui ==
    \/ Construct
    \/ GuiStart
    \/ \E rio \in ReadOutcomes, q \in GuiQueryResults : CreateMonitorControl(rio, q, "ok")
    \/ \E m \in RegistryNames, v \in SliderValues :
          gui.events < MaxEvents /\ OnBrightnessChanged(m, v)
    \/ \E src \in gui.sources : TimerFire(src, "ok")
    \/ GuiApplied
    \/ gui.events < MaxEvents /\ OnResetClicked
    \/ ResetSet("ok")
    \/ ResetSlider
    \/ SetAcquire
    \/ SetInsert
    \/ WorkerAcquire
    \/ WorkerSwap
    \/ ApplyBegin
    \/ \E o \in ApplyOutcomes \cup {"noid"} : ApplyEnd(o)

SpecGui == Init /\ [][NextGui]_vars

(***************************************************************************)
(* Properties.                                                             *)
(***************************************************************************)
EntriesFor(log, m) == SelectSeq(log, LAMBDA e : e.monitor = m)
NamesIn(log) == {log[i].monitor : i \in 1..Len(log)}
LastCall == fg_log[1]
\* the last sweep is over: the worker left the for loop, by its end or by an exception
SweepOver == wpc \in {"sleep", "locked", "dead"} /\ swept # <<>>
\* [0.1, 1.0] and clamp(v), as the specification states them
InRange(b) == 100 <= b /\ b <= 1000
Clamped(v) == IF v < 100 THEN 100 ELSE IF v > 1000 THEN 1000 ELSE v
\* the steps of set_brightness and of the worker, as seen from outside
SetBeginStep == fpc = "idle" /\ fpc' = "set_lock"
SetInsertStep == fpc = "set_insert" /\ fpc' = "idle"
GetStep == fpc = "idle" /\ fpc' = "idle" /\ clock' = clock + 1
ApplyBeginStep == wpc = "apply" /\ wpc' = "in_call"

\* C1: when two or more set_brightness calls for a monitor m completed before a
\* sweep, that sweep, once over, has issued exactly one hardware apply call for m,
\* carrying the value and the time stamp of the last of those calls.
C1_SweepAppliesLatestOnce ==
    SweepOver =>
        \A m \in NamesIn(swept) :
            LET w == EntriesFor(swept, m)
                calls == EntriesFor(hw_log, m)
            IN Len(w) >= 2 =>
                  /\ Len(calls) = 1
                  /\ calls[1].brightness = w[Len(w)].brightness
                  /\ calls[1].ts = w[Len(w)].ts

\* C2: a get_brightness(m) that directly follows a completed set_brightness(m, v),
\* with no swap of the pending map in between, returns clamp(v).
C2_ReadYourWrite ==
    [][ ( /\ GetStep
          /\ fg_log # <<>>
          /\ LastCall.op = "set"
          /\ fg_log'[1].monitor = LastCall.monitor
          /\ ~fg_log'[1].after_sweep )
        => ( /\ ~fg_log'[1].raised
             /\ fg_log'[1].brightness = Clamped(LastCall.value) ) ]_vars

\* C3: the pending map holds at most one entry per monitor; a monitor has an entry
\* exactly when a set_brightness for it was inserted since the last swap, and the
\* entry is the one of the most recent such call.
C3_PendingLastWriterWins ==
    \A m \in NamesIn(pending_changes) \cup NamesIn(window) :
        LET w == EntriesFor(window, m)
            p == EntriesFor(pending_changes, m)
        IN /\ Len(p) <= 1
           /\ w # <<>>
           /\ p = <<w[Len(w)]>>

\* two calls with different values for one monitor since the last swap, after an
\* earlier sweep
C3_Witness ==
    /\ swept # <<>>
    /\ \E m \in NamesIn(window) :
          LET w == EntriesFor(window, m)
          IN Len(w) >= 2 /\ w[1].brightness # w[Len(w)].brightness

\* C4: every completed set_brightness returned True without raising.
C4_SetReturnsTrue ==
    (fg_log # <<>> /\ LastCall.op = "set") => (LastCall.ret = TRUE /\ ~LastCall.raised)

\* a set_brightness whose cache write failed returns while an earlier hardware
\* apply has failed and another one is still running
C4_Witness ==
    /\ fg_log # <<>> /\ LastCall.op = "set" /\ LastCall.io = "fail"
    /\ wpc = "in_call"
    /\ \E i \in 1..Len(hw_log) : hw_log[i].outcome = "fail"

\* C5 (as stated): set_brightness stores clamp(v) in the durable cache, in the
\* in-memory view and in the pending map, and every value handed to a hardware
\* apply call lies in [0.1, 1.0].
C5_StoresClampEverywhere ==
    [][ /\ SetBeginStep =>
             LET m == fcall'.monitor
                 b == Clamped(fcall'.value)
                 f == DictGet(cache_files', GetCacheFile(m), NoFile)
             IN /\ InRange(b)
                /\ brightness_cache'[m] = b
                /\ fcall'.io = "ok" => (f.kind = "num" /\ f.hundredths * 10 = b)
        /\ SetInsertStep =>
             \E i \in 1..Len(pending_changes') :
                /\ pending_changes'[i].monitor = fcall.monitor
                /\ pending_changes'[i].brightness = Clamped(fcall.value)
        /\ ApplyBeginStep => InRange(wcall'.brightness) ]_vars

\* C5 (amended): the in-memory view and the pending map receive clamp(v); the cache
\* record, when its write succeeds, is clamp(v) rounded to two decimals; all of
\* them, and every value handed to a hardware apply call, lie in [0.1, 1.0].
C5_StoresClampRounded ==
    [][ /\ SetBeginStep =>
             LET m == fcall'.monitor
                 b == Clamped(fcall'.value)
                 f == DictGet(cache_files', GetCacheFile(m), NoFile)
                 t == f.hundredths * 10
             IN /\ InRange(b)
                /\ brightness_cache'[m] = b
                /\ fcall'.io = "ok" =>
                      /\ f.kind = "num"
                      /\ InRange(t)
                      /\ t - b < 5 /\ b - t <= 5
        /\ SetInsertStep =>
             \E i \in 1..Len(pending_changes') :
                /\ pending_changes'[i].monitor = fcall.monitor
                /\ pending_changes'[i].brightness = Clamped(fcall.value)
        /\ ApplyBeginStep => InRange(wcall'.brightness) ]_vars

\* set_brightness(m, 0.337) has stored 0.34 in the file, and 0.337 is being applied
C5_Witness ==
    /\ wpc = "in_call" /\ wcall.brightness = 337
    /\ DictGet(cache_files, GetCacheFile(wcall.monitor), NoFile) = NumberText(34)
    /\ DictGet(brightness_cache, wcall.monitor, 0) = 337

\* C6: while the worker is in its for loop, inside a hardware call or between two
\* of them, it does not hold the lock, and a set_brightness that has reached the
\* lock can take it: no step of set_brightness waits for the hardware call.
C6_SetNeverWaitsForHardware ==
    /\ wpc \in {"apply", "in_call"} => change_lock # "worker"
    /\ (wpc \in {"apply", "in_call"} /\ fpc = "set_lock") => ENABLED SetAcquire
    /\ fpc = "set_insert" => ENABLED SetInsert

\* a set_brightness has completed since the swap, and the hardware call of that
\* sweep is still running
C6_Witness ==
    /\ wpc = "in_call"
    /\ window # <<>>
    /\ fpc = "idle"

\* C7: for every monitor, the time stamps of the entries handed to the hardware
\* never decrease: no value of an earlier set_brightness is applied after the
\* value of a later one.
C7_NoReorder ==
    \A m \in DOMAIN applied :
        \A i, j \in 1..Len(applied[m]) : i < j => applied[m][i] <= applied[m][j]

\* some monitor had values of two different calls applied
C7_Witness ==
    \E m \in DOMAIN applied :
        Len(applied[m]) >= 2 /\ applied[m][1] # applied[m][Len(applied[m])]

\* C8: when the hardware-control detect command and both software-fallback listing
\* commands fail, by non-zero exit or missing binary, construction yields exactly the
\* monitor "default" / "Default Monitor".
C8_DefaultWhenAllFail ==
    ( /\ pc # "new"
      /\ env.probe.status \in {"fail", "missing"}
      /\ env.listmon.status \in {"fail", "missing"}
      /\ env.xrandr.status \in {"fail", "missing"} )
    => ( /\ pc = "running"
         /\ Len(monitors) = 1
         /\ monitors[1].name = DefaultName
         /\ monitors[1].display_name = DefaultDisplayName )

\* C9: a constructed controller never has an empty monitor list.
C9_NeverEmpty == pc = "running" => monitors # <<>>

\* C10: get_brightness never raises, whatever the cache read and the hardware
\* query do.
C10_GetNeverRaises ==
    (fg_log # <<>> /\ LastCall.op = "get") => ~LastCall.raised

\* C11: construction completes without raising for every outcome of the probe and
\* of the enumeration commands (binary missing, non-zero exit, empty output).
C11_ConstructNeverRaises == pc # "ctor_raised"

\* a turn of the command line's loop with --brightness-step
StepTurn == cli.pc = "loop" /\ cli.step.some /\ cli.todo # <<>> /\ cli' # cli
\* the turn has handed the value b for its monitor to set_brightness
SettlesAt(b) ==
    /\ fpc' = "set_lock"
    /\ fcall'.monitor = Head(cli.todo)
    /\ fcall'.brightness = b
    /\ DictGet(brightness_cache', Head(cli.todo), 0) = b

\* C12: a step of -5.0 settles the monitor at 0.1 and a step of +5.0 settles it
\* at 1.0, from every starting value.
C12_StepSettlesAtBound ==
    [][ /\ (StepTurn /\ cli.step.val = StepDown) => SettlesAt(100)
        /\ (StepTurn /\ cli.step.val = StepUp) => SettlesAt(1000) ]_vars

\* C13: for every monitor id m and every two-decimal value v of [0.0, 1.0], a
\* _write_cached_brightness(m, v) and a following _read_cached_brightness(m), by the
\* same controller or by a new one on the same directory, both performed by the
\* file system, give back v.
C13_CacheRoundTrip ==
    ( /\ fg_log # <<>>
      /\ LastCall.op \in {"read", "read_fresh"}
      /\ LastCall.io = "ok" /\ LastCall.ret )
    => (LastCall.hit /\ LastCall.brightness = LastCall.value)

\* 0.42 written for the monitor with the sanitized file name, over no earlier
\* record, and read back by a new controller
C13_Witness ==
    /\ fg_log # <<>>
    /\ LastCall.op = "read_fresh" /\ LastCall.io = "ok" /\ LastCall.ret
    /\ LastCall.monitor = NameSlash /\ LastCall.value = 420
    /\ LastCall.brightness = 420

\* C14: the one-shot command line exits with code 0 when its set or step succeeded
\* and with code 1 when it failed, in particular when the --brightness-step text
\* is not a number.
C14_ExitCode ==
    cli.pc = "exited" =>
        /\ cli.printed \in {"set", "adjusted"} => cli.code = 0
        /\ cli.printed \in {"invalid", "traceback"} => cli.code = 1
        /\ (cli.step.some /\ ~Float(cli.step.val).some) => cli.code = 1

\* C15: the backend chosen by the probe at construction is the one in use ever
\* after, whatever get_brightness, set_brightness and the worker's applies did,
\* failed ones included.
C15_BackendFixed ==
    /\ pc = "running" => use_ddcutil = check_ddcutil_available(env.probe)
    /\ wpc = "in_call" =>
          ("noid" \in PossibleOutcomes(check_ddcutil_available(env.probe), monitors,
                                      wcall.monitor)
           <=> "noid" \in PossibleOutcomes(use_ddcutil, monitors, wcall.monitor))

\* under the hardware-control backend an apply has failed, and a get_brightness
\* that missed the cache and ran the hardware query has returned since
C15_Witness ==
    /\ use_ddcutil
    /\ \E i \in 1..Len(hw_log) : hw_log[i].outcome = "fail"
    /\ fg_log # <<>> /\ LastCall.op = "get" /\ LastCall.queried /\ LastCall.after_sweep

\* C16: the probe selects the hardware-control backend exactly when the detect
\* command exits cleanly and its output names at least one display, whatever the
\* number of that display; every failure selects the software fallback.
C16_ProbeSelectsHardware ==
    pc # "new" =>
        ( use_ddcutil <=>
            /\ env.probe.status = "ok"
            /\ \E i \in 1..Len(env.probe.out) : env.probe.out[i].kind = "display" )

\* C17: get_brightness runs the hardware query only when the cache has no record;
\* a hit returns the cached value and queries nothing; and once a get_brightness(m)
\* has returned, the next get_brightness(m) is served from the cache with no
\* hardware query.
C17_QueryOnlyOnFirstMiss ==
    [][ GetStep =>
          LET g == fg_log'[1]
          IN /\ g.queried => ~g.hit
             /\ g.hit =>
                   /\ ~g.raised
                   /\ Some(g.brightness) \in
                         {ReadCachedBrightness(cache_files, g.monitor, rio) :
                             rio \in ReadOutcomes}
             /\ ( /\ fg_log # <<>>
                  /\ LastCall.op = "get" /\ ~LastCall.raised
                  /\ LastCall.monitor = g.monitor )
                => (g.hit /\ ~g.queried) ]_vars

\* C18: a failed hardware apply is not retried: the value of a failed apply is not
\* put back into the pending map, and no entry is handed to the hardware twice, so
\* that a further apply for the monitor comes only from a later set_brightness.
C18_NoRetry ==
    /\ \A i \in 1..Len(hw_log) :
          hw_log[i].outcome \in {"fail", "missing", "noid"} =>
             \A j \in 1..Len(pending_changes) :
                pending_changes[j].monitor = hw_log[i].monitor
                   => pending_changes[j].ts > hw_log[i].ts
    /\ \A i \in 1..Len(hw_log) :
          hw_log[i].outcome \in {"fail", "missing", "noid"} =>
             \A j \in 1..Len(to_apply) : to_apply[j].ts # hw_log[i].ts
    /\ \A m \in DOMAIN applied :
          \A i, j \in 1..Len(applied[m]) : i < j => applied[m][i] # applied[m][j]

\* an apply has failed, the sweep is over, and the worker, back under the lock,
\* finds nothing pending
C18_Witness ==
    /\ wpc = "locked"
    /\ pending_changes = <<>>
    /\ \E i \in 1..Len(hw_log) : hw_log[i].outcome = "fail"

\* C19: no two hardware apply calls for the same monitor are in progress at the
\* same time.
C19_OneApplyPerMonitor ==
    \A i, j \in 1..Len(hw_log) :
        (i < j /\ hw_log[i].outcome = "running" /\ hw_log[j].outcome = "running")
           => hw_log[i].monitor # hw_log[j].monitor

\* the second apply for a monitor is in progress while a third value for the same
\* monitor is pending
C19_Witness ==
    /\ wpc = "in_call"
    /\ Len(DictGet(applied, wcall.monitor, <<>>)) >= 2
    /\ HasKey(pending_changes, wcall.monitor)
    /\ Len(Running(hw_log)) = 1

\* C20: when the cache write of a set_brightness(m, v) failed, the next
\* get_brightness(m) of the same controller still returns clamp(v), under either
\* backend.
C20_ViewServesWhenCacheFails ==
    [][ ( /\ GetStep
          /\ fg_log # <<>>
          /\ LastCall.op = "set" /\ LastCall.io = "fail"
          /\ fg_log'[1].monitor = LastCall.monitor )
        => ( /\ ~fg_log'[1].raised
             /\ fg_log'[1].brightness = Clamped(LastCall.value) ) ]_vars

\* C21: every record of the cache directory, written by set_brightness or by the
\* write-back of a get_brightness that missed the cache, holds a value of [0.1, 1.0].
C21_RecordsInRange ==
    \A k \in DOMAIN cache_files :
        cache_files[k].kind = "num" => InRange(ParseFloat(cache_files[k].hundredths))

\* the first line of a query output that holds "current value"
RECURSIVE FirstCurrentValue(_)
FirstCurrentValue(lines) ==
    IF lines = <<>> THEN OtherQueryLine
    ELSE IF Head(lines).kind # "other" THEN Head(lines)
    ELSE FirstCurrentValue(Tail(lines))

\* C22: when the query ran and the first line of its output that holds "current
\* value" reads "current value = X, max value = Y" with Y > 0, the lines before it
\* were skipped and get_ddcutil_brightness returns X / Y.
C22_QueryParsesRatio ==
    ( /\ fg_log # <<>>
      /\ LastCall.op = "query" /\ LastCall.queried
      /\ FirstCurrentValue(LastCall.out).kind = "value"
      /\ FirstCurrentValue(LastCall.out).max_val > 0 )
    => ( /\ ~LastCall.raised
         /\ LastCall.brightness * FirstCurrentValue(LastCall.out).max_val
               = 1000 * FirstCurrentValue(LastCall.out).current )

\* two other lines, then "current value = 80, max value = 200": 0.4
C22_Witness ==
    /\ fg_log # <<>>
    /\ LastCall.op = "query" /\ LastCall.queried
    /\ LastCall.out = <<OtherQueryLine, OtherQueryLine, ValueLine(80, 200)>>
    /\ LastCall.brightness = 400

\* the timeouts armed for a monitor
SourcesFor(m) == {src \in gui.sources : src.monitor = m}

\* C23: the slider moves of a monitor are coalesced: while moves are waiting, one
\* timeout is armed for the monitor, the one of its last move, and it holds the
\* value of that move; and every set_brightness made by the debounce was made by
\* the timeout of the last move before it, with the value of that move: one call
\* for the burst, after its quiet period.
C23_DebounceCoalesces ==
    /\ \A m \in DOMAIN gui.last : Cardinality(SourcesFor(m)) <= 1
    /\ \A m \in DOMAIN gui.pending_changes :
          /\ gui.pending_changes[m] = gui.last[m].value
          /\ \E src \in SourcesFor(m) : src.seq = gui.last[m].seq
    /\ \A i \in 1..Len(gui.fired) :
          /\ gui.fired[i].seq = gui.fired[i].last.seq
          /\ gui.fired[i].value = gui.fired[i].last.value

\* two moves of one slider to different values, the second before the timeout of
\* the first, and the one call of the burst is in set_brightness with the second
\* value
C23_Witness ==
    /\ gui.pc = "applying"
    /\ gui.events = 2 /\ gui.next_id = 3
    /\ DOMAIN gui.last = {gui.cur.monitor}
    /\ gui.last[gui.cur.monitor].seq = 2
    /\ fpc \in {"set_lock", "set_insert"}
    /\ fcall.value = gui.last[gui.cur.monitor].value
    /\ clock = Len(monitors) + 1

\* C24: from the return of a set_brightness(m, v) until the next set_brightness for
\* m begins, the in-memory view of m is clamp(v), also while and after the worker
\* applies an older value for m.
C24_ViewHoldsLatest ==
    \A m \in NamesIn(window) :
        fcall.monitor # m =>
            LET w == EntriesFor(window, m)
            IN DictGet(brightness_cache, m, 0) = w[Len(w)].brightness

\* C25: after a hardware apply has failed, by a non-zero exit or by a missing
\* binary, the worker loop is still running, so that a write scheduled afterwards
\* is still attempted.
C25_WorkerSurvives ==
    (\E i \in 1..Len(hw_log) : hw_log[i].outcome \in {"fail", "missing"})
        => wpc \in {"sleep", "locked", "apply", "in_call"}

\* the names a monitor can have in the runs of the model
AllNames == {DisplayPrefix \o <<"1">>, DisplayPrefix \o <<"2">>, NameEDP, NameDP}
PendingAt(m, t) ==
    \E i \in 1..Len(pending_changes) :
        pending_changes[i].monitor = m /\ pending_changes[i].ts = t
AttemptedSince(m, t) ==
    \E j \in 1..Len(DictGet(applied, m, <<>>)) : applied[m][j] >= t

\* C26: with a fair worker and hardware calls that end, every entry put into the
\* pending map is eventually taken out of it and handed to the hardware, itself or
\* a newer entry of its monitor; and once the set_brightness calls stop, the
\* pending map becomes empty and stays empty.
C26_PendingDrains ==
    /\ \A m \in AllNames : \A t \in 1..MaxSets :
          PendingAt(m, t) ~> (~PendingAt(m, t) /\ AttemptedSince(m, t))
    /\ <>[](pending_changes = <<>>)

\* the write state of a monitor: Pending with an entry in the pending map, Writing
\* with an entry swapped out and not yet through its apply call, Idle with neither
IsPending(m) == HasKey(pending_changes, m)
IsWriting(m) == HasKey(to_apply, m) \/ (wpc = "in_call" /\ wcall.monitor = m)

\* C27: a monitor becomes Pending only by set_brightness, leaves Pending only by
\* the swap of a sweep, which makes it Writing, becomes Writing in no other way,
\* and leaves Writing only when its apply call ends; a set_brightness that arrives
\* while the monitor is Writing is kept as a pending entry, and that entry is
\* applied by a later sweep.
C27_WriteStateMachine ==
    /\ [][ \A m \in AllNames :
              /\ (~IsPending(m) /\ IsPending(m)') => (SetInsertStep /\ fcall.monitor = m)
              /\ (IsPending(m) /\ ~IsPending(m)') => (wpc = "locked" /\ IsWriting(m)')
              /\ (~IsWriting(m) /\ IsWriting(m)') => (wpc = "locked" /\ IsPending(m))
              /\ (IsWriting(m) /\ ~IsWriting(m)') =>
                    (wpc = "in_call" /\ wcall.monitor = m)
              /\ (IsWriting(m) /\ SetInsertStep /\ fcall.monitor = m) =>
                    (IsWriting(m)' /\ IsPending(m)') ]_vars
    /\ \A m \in AllNames : \A t \in 1..MaxSets :
          (IsWriting(m) /\ PendingAt(m, t)) ~> AttemptedSince(m, t)

\* a marker line of the detect output that a model line follows before the next
\* marker line
MarkerWithModel(out, i) ==
    /\ out[i].kind = "display"
    /\ \E j \in (i + 1)..Len(out) :
          /\ out[j].kind = "model"
          /\ \A k \in (i + 1)..(j - 1) : out[k].kind # "display"
MarkersWithModel(out) == SelectIdx(out, {i \in 1..Len(out) : MarkerWithModel(out, i)})
EnumeratedByDetect == pc = "running" /\ use_ddcutil /\ env.detect.status = "ok"

C29_AppliedBeforeExit ==
    (cli.pc = "exited" /\ cli.code = 0) =>
        /\ pending_changes = <<>>
        /\ to_apply = <<>>
        /\ wcall = NoEntry

\* C30: a _write_cached_brightness for one monitor id leaves the value that
\* _read_cached_brightness returns for every other monitor id as it was.
C30_RecordsIsolated ==
    [][ (fpc = "idle" /\ fpc' = "written") =>
          \A m2 \in CacheNames \ {fcall'.monitor} :
              ReadCachedBrightness(cache_files', m2, "ok")
                  = ReadCachedBrightness(cache_files, m2, "ok") ]_vars

\* C31: a get_brightness(m) that follows a get_brightness(m) which missed the
\* cache, queried the hardware and wrote its result back, with no set_brightness
\* in between, is served that record and returns the value the first call
\* returned.
C31_GetStable ==
    [][ ( /\ GetStep
          /\ fg_log # <<>>
          /\ LastCall.op = "get" /\ ~LastCall.raised /\ LastCall.queried
          /\ fg_log'[1].monitor = LastCall.monitor
          /\ DictGet(cache_files, GetCacheFile(LastCall.monitor), NoFile)
                = NumberText(Format2(LastCall.brightness))
          /\ fg_log'[1].hit )
        => fg_log'[1].brightness = LastCall.brightness ]_vars

\* C32: once the controller is constructed with the hardware-control backend
\* selected, every monitor of its registry has a ddcutil_id, whatever the detect
\* command of the enumeration returned.
C32_RegistryHasIds ==
    (pc = "running" /\ use_ddcutil) =>
        \A i \in 1..Len(monitors) : monitors[i].ddcutil_id # NoId

\* the names of the registry, in its order
RegistryOrder == [i \in 1..Len(monitors) |-> monitors[i].name]

\* C33: from a click on reset on, no timeout armed by a slider move before the
\* click is armed any more, and a set_brightness made by the debounce belongs to a
\* move after the click; and the loop of the reset goes through the registry and
\* has called set_brightness(m, 1.0) for the monitor it is at.
C33_ResetCancels ==
    /\ \A src \in gui.sources : src.seq > gui.reset
    /\ gui.pc = "applying" => gui.cur.seq > gui.reset
    /\ gui.pc \in {"resetting", "reset_set"} =>
          /\ gui.todo # <<>>
          /\ \E k \in 1..Len(monitors) :
                gui.todo = SubSeq(RegistryOrder, k, Len(monitors))
    /\ (gui.pc = "reset_set" /\ fpc = "idle") =>
          /\ fg_log # <<>> /\ LastCall.op = "set"
          /\ LastCall.monitor = Head(gui.todo)
          /\ LastCall.value = MaxBrightness /\ LastCall.brightness = MaxBrightness
\* a slider was moved, its timeout had not fired when reset was clicked, and the
\* reset is over: its last set_brightness(m, 1.0) has returned and no timeout is
\* armed
C33_Witness ==
    /\ gui.reset = 2 /\ gui.pc = "idle"
    /\ gui.last # EmptyDict /\ gui.fired = <<>>
    /\ gui.sources = {}
    /\ fg_log # <<>> /\ LastCall.op = "set"
    /\ LastCall.monitor = monitors[Len(monitors)].name
    /\ LastCall.value = MaxBrightness

\* the timer ids of the main loop that are armed: neither fired nor removed
ArmedIds == {src.id : src \in gui.sources}

\* C34: between the handlers of the window, a monitor has an entry in
\* change_timers exactly when it has one in pending_changes, and every timer id
\* in change_timers is the id of a timeout that is armed: it has neither fired
\* nor been removed.
C34_TimersMatchPending ==
    gui.pc \in {"idle", "resetting", "reset_set"} =>
        /\ DOMAIN gui.change_timers = DOMAIN gui.pending_changes
        /\ \A m \in DOMAIN gui.change_timers :
              /\ gui.change_timers[m] \in ArmedIds
              /\ \E src \in gui.sources :
                    src.id = gui.change_timers[m] /\ src.monitor = m
\* two sliders were moved, the timeout of one has fired and its call is over while
\* the other is still armed
C34_Witness ==
    /\ gui.pc = "idle"
    /\ gui.fired # <<>>
    /\ Cardinality(DOMAIN gui.last) = 2
    /\ Cardinality(DOMAIN gui.change_timers) = 1
    /\ \A m \in DOMAIN gui.change_timers : gui.fired[1].monitor # m

====
